---- MODULE Spec2Model ----
(***************************************************************************)
(* Model of canfar/vospace.py: VOSpaceClient, its lazily created and       *)
(* cached vos.Client handle (the vos_client property) and the Bearer-auth  *)
(* wrapper that _patch_bearer_auth installs over vos.Client.get_endpoints. *)
(*                                                                         *)
(* Python values are modelled as strings: None is the string None below,   *)
(* a key that a dict does not hold (or an unset environment variable) maps *)
(* to Absent.  A dict is a function from the header names to values.       *)
(***************************************************************************)
EXTENDS Integers, Sequences, FiniteSets, TLC

(* ------------------------------ bounds --------------------------------- *)

\* Cap on the vos.Client objects one VOSpaceClient may build in a behaviour.
MaxClients == 2

\* Saturation value of the per-endpoint count of header-mutating resolutions.
MaxAdaptCount == 2

(* ------------------------- program constants --------------------------- *)

DEFAULT_VOSPACE_HOST == "spsrc27.iaa.csic.es"

HEADER_DELEG_TOKEN == "X-CADC-DelegationToken"

AUTHORIZATION == "Authorization"

VOSPACE_WEBSERVICE == "VOSPACE_WEBSERVICE"

LOCAL_VOSPACE_WEBSERVICE == "LOCAL_VOSPACE_WEBSERVICE"

(* --------------------------- Python values ----------------------------- *)

None == "<None>"

Absent == "<absent>"

\* self._vos_client = None; a constructed client is its index in clients.
NoClient == 0

\* bool(x) for the strings and None the code tests.
Truthy(x) == x \notin {None, Absent, ""}

(* ------------------------------ domains -------------------------------- *)

Tokens == {"abc123", "def456"}

URIs == {"vos://a~cavern/home", "vos://b~cavern/home"}

EnvNames == {VOSPACE_WEBSERVICE, LOCAL_VOSPACE_WEBSERVICE}

\* Values the surrounding process may give an environment variable.
EnvVals == {Absent, "", "ws.example.org"}

HeaderNames == {HEADER_DELEG_TOKEN, AUTHORIZATION}

\* An Authorization header set by a code path other than the wrapper.
OtherAuth == "Basic dXNlcjpwdw=="

DelegVal == "xyz"

EmptyDict == [n \in HeaderNames |-> Absent]

\* ws_client.session_headers is None when vos.Client was given no token.
NoneDict == [n \in HeaderNames |-> None]

DelegDict == [EmptyDict EXCEPT ![HEADER_DELEG_TOKEN] = DelegVal]

\* vos builds session_headers as None or {X-CADC-DelegationToken: token}.
PersistentDicts == {NoneDict, EmptyDict, DelegDict}

\* Live session headers some other path may have set before a resolution.
InitialLiveDicts ==
    { [n \in HeaderNames |-> IF n = HEADER_DELEG_TOKEN THEN d ELSE a] :
        d \in {Absent, DelegVal}, a \in {Absent, OtherAuth} }

\* self.config.context: has_token is hasattr(ctx, "token"), token is
\* ctx.token (None or a token object), access is ctx.token.access.
Contexts ==
    { [has_token |-> FALSE, token |-> None, access |-> None],
      [has_token |-> TRUE, token |-> None, access |-> None],
      [has_token |-> TRUE, token |-> "", access |-> None] }
    \cup { [has_token |-> TRUE, token |-> "Token", access |-> a] :
             a \in Tokens \cup {""} }

\* Where a resolution may fail: inside the original get_endpoints, or at
\* one of the attribute accesses of the wrapper's try block.
FaultSites ==
    {"original", "conn", "ws_client", "session_headers", "_get_session", "headers"}

Excs == {"AttributeError", "OtherError"}

NoFault == [at |-> "none", exc |-> None]

Faults == {NoFault} \cup [at : FaultSites, exc : Excs]

(* ------------------------------- state --------------------------------- *)

VARIABLES
    environ,          \* os.environ, restricted to the two variables read
    ctx,              \* self.config.context
    _vos_client,      \* self._vos_client: NoClient or an index into clients
    _token,           \* self._token
    clients,          \* the vos.Client objects built so far
    session_headers,  \* per endpoint: endpoint.conn.ws_client.session_headers
    headers,          \* per endpoint: the live session's headers
    adaptations,      \* per endpoint: resolutions that changed its headers
    ret               \* outcome of the most recent call on the client

vars ==
    <<environ, ctx, _vos_client, _token, clients, session_headers, headers,
      adaptations, ret>>

\* op and uri: the call; outcome: "returned" or "raised"; exc: the exception
\* that occurred in it (caught or not) and origin: where ("original" method
\* or the wrapper's "try" block); endpoint, client: the value returned;
\* warned: log.warning was called.
NoCall ==
    [op |-> "none", uri |-> None, outcome |-> "none", exc |-> None,
     origin |-> None, endpoint |-> None, client |-> NoClient, warned |-> FALSE]

(* ------------------------- dict operations ----------------------------- *)

\* key in d
Has(d, key) == d[key] \notin {Absent, None}

\* del d[key]
Del(d, key) == [d EXCEPT ![key] = Absent]

\* d[key] = value
Put(d, key, value) == [d EXCEPT ![key] = value]

\* bool(d) for a dict or None
TruthyDict(d) == \E n \in HeaderNames : Has(d, n)

\* f"Bearer {token}"
Bearer(token) == "Bearer " \o token

(* ----------------------- VOSpaceClient.vos_client ---------------------- *)

\* if self._vos_client is None:
NeedsClient_Always(c) == TRUE

NeedsClient(c) == c = NoClient

\* not os.getenv(VOSPACE_WEBSERVICE) and not os.getenv(LOCAL_VOSPACE_WEBSERVICE)
NoHostConfigured_IgnoresLocal(env) == ~Truthy(env[VOSPACE_WEBSERVICE])

NoHostConfigured(env) ==
    ~Truthy(env[VOSPACE_WEBSERVICE]) /\ ~Truthy(env[LOCAL_VOSPACE_WEBSERVICE])

\* os.environ["VOSPACE_WEBSERVICE"] = DEFAULT_VOSPACE_HOST, when needed
DefaultHost(env) ==
    IF NoHostConfigured(env)
    THEN [env EXCEPT ![VOSPACE_WEBSERVICE] = DEFAULT_VOSPACE_HOST]
    ELSE env

\* hasattr(ctx, 'token') and ctx.token, then ctx.token.access, else None
AccessToken(c) == IF c.has_token /\ Truthy(c.token) THEN c.access ELSE None

\* vos.Client(vospace_token=token): a fresh client, get_endpoints being the
\* library's own method (no wrapper around it).
VosClient_TokenNotPassed(token) == [vospace_token |-> None, get_endpoints |-> <<>>]

VosClient(token) == [vospace_token |-> token, get_endpoints |-> <<>>]

\* if self._token: self._patch_bearer_auth()
ShouldPatch_Always(token) == TRUE

ShouldPatch(token) == Truthy(token)

\* _patch_bearer_auth: get_endpoints becomes a wrapper closing over the
\* token and over the method it replaces.  get_endpoints is modelled as the
\* sequence of the tokens of the wrappers around the original, innermost first.
_patch_bearer_auth(client, token) ==
    [client EXCEPT !.get_endpoints = Append(@, token)]

NewClient(token) ==
    IF ShouldPatch(token)
    THEN _patch_bearer_auth(VosClient(token), token)
    ELSE VosClient(token)

\* One read of the vos_client property.  ctor_ok is whether vos.Client()
\* returns; when it raises, the exception leaves the property with the
\* environment and self._token already written.
vos_client(ctor_ok) ==
    IF NeedsClient(_vos_client)
    THEN /\ Len(clients) < MaxClients
         /\ environ' = DefaultHost(environ)
         /\ _token' = AccessToken(ctx)
         /\ IF ctor_ok
            THEN /\ clients' = Append(clients, NewClient(AccessToken(ctx)))
                 /\ _vos_client' = Len(clients) + 1
                 /\ ret' = [NoCall EXCEPT !.op = "vos_client",
                                          !.outcome = "returned",
                                          !.client = Len(clients) + 1]
            ELSE /\ UNCHANGED <<clients, _vos_client>>
                 /\ ret' = [NoCall EXCEPT !.op = "vos_client",
                                          !.outcome = "raised",
                                          !.exc = "OtherError",
                                          !.origin = "vos.Client"]
         /\ UNCHANGED <<ctx, session_headers, headers, adaptations>>
    ELSE /\ ctor_ok
         /\ ret' = [NoCall EXCEPT !.op = "vos_client",
                                  !.outcome = "returned",
                                  !.client = _vos_client]
         /\ UNCHANGED <<environ, ctx, _vos_client, _token, clients,
                        session_headers, headers, adaptations>>

(* ---------------- _patch_bearer_auth.patched_get_endpoints -------------- *)

\* The result of a get_endpoints call: what it returns or raises, whether
\* log.warning was called, and the header state it leaves behind.
Result(outcome, exc, origin, endpoint, warned, sh, h) ==
    [outcome |-> outcome, exc |-> exc, origin |-> origin, endpoint |-> endpoint,
     warned |-> warned, session_headers |-> sh, headers |-> h]

\* original_get_endpoints(uri): the library's method returns the endpoint of
\* the uri (identified with the uri), or raises.
original_get_endpoints(uri, fault, sh, h) ==
    IF fault.at = "original"
    THEN Result("raised", fault.exc, "original", None, FALSE, sh, h)
    ELSE Result("returned", None, None, uri, FALSE, sh, h)

\* if ws_client.session_headers and HEADER_DELEG_TOKEN in ...: del ...
StripPersistent_Skipped(d) == d

StripPersistent(d) ==
    IF TruthyDict(d) /\ Has(d, HEADER_DELEG_TOKEN)
    THEN Del(d, HEADER_DELEG_TOKEN)
    ELSE d

\* ws_client._get_session(): the session, its headers updated with the
\* persistent session_headers (they are "re-added on each session access").
_get_session(persistent, live) ==
    IF TruthyDict(persistent)
    THEN [n \in HeaderNames |-> IF Has(persistent, n) THEN persistent[n] ELSE live[n]]
    ELSE live

\* if HEADER_DELEG_TOKEN in session.headers: del session.headers[...]
StripLive_Skipped(h) == h

StripLive(h) ==
    IF Has(h, HEADER_DELEG_TOKEN) THEN Del(h, HEADER_DELEG_TOKEN) ELSE h

\* if "Authorization" not in session.headers: session.headers[...] = Bearer
AddBearer_Overwrites(h, token) == Put(h, AUTHORIZATION, Bearer(token))

AddBearer(h, token) ==
    IF ~Has(h, AUTHORIZATION) THEN Put(h, AUTHORIZATION, Bearer(token)) ELSE h

\* The body of the try block on one endpoint, statement by statement; a
\* fault raises at its site with the statements before it already executed.
TryBlock(token, persistent, live, fault) ==
    IF fault.at \in {"conn", "ws_client", "session_headers"}
    THEN [session_headers |-> persistent, headers |-> live, exc |-> fault.exc]
    ELSE LET persistent1 == StripPersistent(persistent) IN
         IF fault.at \in {"_get_session", "headers"}
         THEN [session_headers |-> persistent1, headers |-> live, exc |-> fault.exc]
         ELSE [session_headers |-> persistent1,
               headers |-> AddBearer(StripLive(_get_session(persistent1, live)), token),
               exc |-> None]

\* except AttributeError as e:
Caught_Nothing(exc) == FALSE

Caught_Everything(exc) == TRUE

Caught(exc) == exc = "AttributeError"

\* patched_get_endpoints(uri), given the result r of the method it wraps.
patched_get_endpoints(token, fault, r) ==
    IF r.outcome = "raised"
    THEN r
    ELSE LET e == r.endpoint
             t == TryBlock(token, r.session_headers[e], r.headers[e], fault)
             sh == [r.session_headers EXCEPT ![e] = t.session_headers]
             h == [r.headers EXCEPT ![e] = t.headers]
         IN  IF t.exc = None
             THEN Result("returned", r.exc, r.origin, e, r.warned, sh, h)
             ELSE IF Caught(t.exc)
             THEN Result("returned", t.exc, "try", e, TRUE, sh, h)
             ELSE Result("raised", t.exc, "try", None, r.warned, sh, h)

\* client.get_endpoints(uri): the original method under the installed wrappers.
RECURSIVE Invoke(_, _, _, _, _)
Invoke(wrappers, uri, fault, sh, h) ==
    IF wrappers = <<>>
    THEN original_get_endpoints(uri, fault, sh, h)
    ELSE patched_get_endpoints(
             wrappers[Len(wrappers)], fault,
             Invoke(SubSeq(wrappers, 1, Len(wrappers) - 1), uri, fault, sh, h))

\* A fault inside the try block needs a wrapper to run that block.
FaultApplies(client, fault) ==
    fault.at \in {"none", "original"} \/ client.get_endpoints # <<>>

Bump(n) == IF n < MaxAdaptCount THEN n + 1 ELSE n

\* self.vos_client.get_endpoints(uri) on the constructed client.
get_endpoints(uri, fault) ==
    /\ _vos_client # NoClient
    /\ FaultApplies(clients[_vos_client], fault)
    /\ \E r \in {Invoke(clients[_vos_client].get_endpoints, uri, fault,
                       session_headers, headers)} :
           /\ session_headers' = r.session_headers
           /\ headers' = r.headers
           /\ adaptations' =
                [u \in URIs |->
                    IF r.session_headers[u] # session_headers[u]
                       \/ r.headers[u] # headers[u]
                    THEN Bump(adaptations[u])
                    ELSE adaptations[u]]
           /\ ret' = [op |-> "get_endpoints", uri |-> uri,
                      outcome |-> r.outcome, exc |-> r.exc, origin |-> r.origin,
                      endpoint |-> r.endpoint, client |-> NoClient,
                      warned |-> r.warned]
    /\ UNCHANGED <<environ, ctx, _vos_client, _token, clients>>

(* --------------------- the surrounding process ------------------------- *)

\* Another code path sets or clears one header of an endpoint's live session.
SetSessionHeader(uri, name, value) ==
    /\ headers' = [headers EXCEPT ![uri][name] = value]
    /\ headers' # headers
    /\ ret' = NoCall
    /\ UNCHANGED <<environ, ctx, _vos_client, _token, clients, session_headers,
                   adaptations>>

\* The library (re)builds an endpoint's persistent session_headers.
SetPersistentHeaders(uri, d) ==
    /\ session_headers' = [session_headers EXCEPT ![uri] = d]
    /\ session_headers' # session_headers
    /\ ret' = NoCall
    /\ UNCHANGED <<environ, ctx, _vos_client, _token, clients, headers,
                   adaptations>>

\* Login, logout or a context switch replaces the authentication context.
SetContext(c) ==
    /\ c # ctx
    /\ ctx' = c
    /\ ret' = NoCall
    /\ UNCHANGED <<environ, _vos_client, _token, clients, session_headers,
                   headers, adaptations>>

\* The process sets or unsets one of the two environment variables.
SetEnviron(name, value) ==
    /\ environ[name] # value
    /\ environ' = [environ EXCEPT ![name] = value]
    /\ ret' = NoCall
    /\ UNCHANGED <<ctx, _vos_client, _token, clients, session_headers, headers,
                   adaptations>>

(* --------------------------- specifications ---------------------------- *)

\* VOSpaceClient.__init__: no client, no token.
InitSelf ==
    /\ _vos_client = NoClient
    /\ _token = None
    /\ clients = <<>>
    /\ adaptations = [u \in URIs |-> 0]
    /\ ret = NoCall

\* The shim at work: any context, any endpoint header state, no host
\* configured; the surrounding process edits headers between resolutions.
Init ==
    /\ InitSelf
    /\ environ = [n \in EnvNames |-> Absent]
    /\ ctx \in Contexts
    /\ session_headers \in [URIs -> PersistentDicts]
    /\ headers \in [URIs -> InitialLiveDicts]

Access == \E ctor_ok \in BOOLEAN : vos_client(ctor_ok)

Resolve == \E uri \in URIs, fault \in Faults : get_endpoints(uri, fault)

EditLive ==
    \E uri \in URIs :
        \/ \E v \in {Absent, DelegVal} : SetSessionHeader(uri, HEADER_DELEG_TOKEN, v)
        \/ \E v \in {Absent, OtherAuth} : SetSessionHeader(uri, AUTHORIZATION, v)

EditPersistent ==
    \E uri \in URIs, d \in PersistentDicts : SetPersistentHeaders(uri, d)

Next == Access \/ Resolve \/ EditLive \/ EditPersistent

Spec == Init /\ [][Next]_vars

\* The handle's life cycle: the context and the environment change between
\* reads of the property; every endpoint still carries the library's
\* delegation-token header.
InitHandle ==
    /\ InitSelf
    /\ environ \in [EnvNames -> EnvVals]
    /\ ctx \in Contexts
    /\ session_headers = [u \in URIs |-> DelegDict]
    /\ headers = [u \in URIs |-> DelegDict]

ChangeContext == \E c \in Contexts : SetContext(c)

ChangeEnviron == \E n \in EnvNames, v \in EnvVals : SetEnviron(n, v)

NextHandle == Access \/ ChangeContext \/ ChangeEnviron

SpecHandle == InitHandle /\ [][NextHandle]_vars

(* ------------------------------ claims --------------------------------- *)

\* The client in use has the Bearer wrapper installed.
Patched == _vos_client # NoClient /\ clients[_vos_client].get_endpoints # <<>>

\* The most recent call was a resolution that returned with no exception.
CleanResolution ==
    ret.op = "get_endpoints" /\ ret.outcome = "returned" /\ ret.exc = None

\* C1: with a captured token T, a resolution through the wrapper of an
\* endpoint that carries the delegation-token header and no Authorization
\* header leaves its live session headers as exactly {Authorization:
\* "Bearer T"} and its persistent session_headers without the
\* delegation-token header.
C1_BearerReplacesDelegation ==
    [][ ( /\ CleanResolution'
          /\ Patched
          /\ \/ Has(headers[ret'.uri], HEADER_DELEG_TOKEN)
             \/ Has(session_headers[ret'.uri], HEADER_DELEG_TOKEN)
          /\ ~Has(headers[ret'.uri], AUTHORIZATION) )
        => /\ headers'[ret'.uri] = [EmptyDict EXCEPT ![AUTHORIZATION] = Bearer(_token)]
           /\ ~Has(session_headers'[ret'.uri], HEADER_DELEG_TOKEN) ]_vars

C1_Witness ==
    /\ CleanResolution
    /\ Patched
    /\ _token = "abc123"
    /\ adaptations[ret.uri] >= 1
    /\ headers[ret.uri] = [EmptyDict EXCEPT ![AUTHORIZATION] = "Bearer abc123"]
    /\ session_headers[ret.uri] = EmptyDict

\* C2 (as claimed): for every endpoint, at most one resolution ever changes
\* its headers; later resolutions leave them as they find them.
C2_AdaptedAtMostOnce == \A u \in URIs : adaptations[u] <= 1

\* C2 (amended): a resolution of an endpoint whose headers an earlier
\* resolution already changed adapts it again: afterwards neither header map
\* holds the delegation-token header, the Authorization header is the one
\* found, or "Bearer T" when none was found, and nothing changes exactly
\* when the headers were still in that adapted form; no other endpoint's
\* headers change.
C2_EveryResolutionReadapts ==
    [][ ( /\ CleanResolution'
          /\ Patched
          /\ adaptations[ret'.uri] >= 1 )
        => /\ ~Has(session_headers'[ret'.uri], HEADER_DELEG_TOKEN)
           /\ ~Has(headers'[ret'.uri], HEADER_DELEG_TOKEN)
           /\ headers'[ret'.uri][AUTHORIZATION] =
                IF Has(headers[ret'.uri], AUTHORIZATION)
                THEN headers[ret'.uri][AUTHORIZATION]
                ELSE Bearer(_token)
           /\ ( /\ headers'[ret'.uri] = headers[ret'.uri]
                /\ session_headers'[ret'.uri] = session_headers[ret'.uri] )
              <=> ( /\ ~Has(session_headers[ret'.uri], HEADER_DELEG_TOKEN)
                    /\ ~Has(headers[ret'.uri], HEADER_DELEG_TOKEN)
                    /\ Has(headers[ret'.uri], AUTHORIZATION) )
           /\ \A v \in URIs \ {ret'.uri} :
                /\ headers'[v] = headers[v]
                /\ session_headers'[v] = session_headers[v] ]_vars

C2_Witness ==
    /\ CleanResolution
    /\ Patched
    /\ adaptations[ret.uri] >= 2
    /\ headers[ret.uri][AUTHORIZATION] = Bearer(_token)

\* C3: reading vos_client builds at most one vos.Client and wraps its
\* get_endpoints at most once; once a client exists every read returns it,
\* and the client, its wrapper and the captured token never change again,
\* whatever the authentication context has become.
C3_HandleBuiltOnce ==
    [][ /\ Len(clients') <= 1
        /\ \A i \in 1..Len(clients') : Len(clients'[i].get_endpoints) <= 1
        /\ _vos_client # NoClient
             => /\ _vos_client' = _vos_client
                /\ _token' = _token
                /\ clients' = clients
        /\ (ret'.op = "vos_client" /\ _vos_client # NoClient)
             => (ret'.outcome = "returned" /\ ret'.client = _vos_client) ]_vars

C3_Witness ==
    /\ _vos_client # NoClient
    /\ ret.op = "vos_client"
    /\ ret.outcome = "returned"
    /\ ret.client = _vos_client
    /\ _token = "abc123"
    /\ clients[_vos_client].get_endpoints = <<"abc123">>
    /\ ctx.access = "def456"

\* C4: a resolution never changes an Authorization header that an
\* endpoint's live session already holds.
C4_AuthorizationKept ==
    [][ ret'.op = "get_endpoints"
        => \A u \in URIs :
             Has(headers[u], AUTHORIZATION)
               => headers'[u][AUTHORIZATION] = headers[u][AUTHORIZATION] ]_vars

C4_Witness ==
    /\ CleanResolution
    /\ Patched
    /\ adaptations[ret.uri] >= 1
    /\ headers[ret.uri][AUTHORIZATION] = OtherAuth

\* C5 (as claimed): no vos.Client is given the token through vospace_token.
C5_TokenNotPassed ==
    \A i \in 1..Len(clients) : clients[i].vospace_token = None

\* C5 (amended): the vos.Client is built with vospace_token set to the
\* captured token: the context's access token when the context holds a
\* token, None otherwise.
C5_TokenPassed ==
    [][ (ret'.op = "vos_client" /\ _vos_client = NoClient /\ _vos_client' # NoClient)
        => clients'[_vos_client'].vospace_token =
             IF ctx.has_token /\ ctx.token \notin {None, ""}
             THEN ctx.access
             ELSE None ]_vars

C5_Witness ==
    /\ _vos_client # NoClient
    /\ ret.op = "vos_client"
    /\ ret.outcome = "returned"
    /\ clients[_vos_client].vospace_token = "abc123"

\* C6: a resolution in which the try block raised AttributeError leaves
\* every endpoint's persistent and live headers as they were.
C6_FailedAdaptationChangesNothing ==
    [][ (ret'.op = "get_endpoints" /\ ret'.origin = "try"
         /\ ret'.exc = "AttributeError")
        => UNCHANGED <<session_headers, headers>> ]_vars

\* C7: a resolution in which the try block raised AttributeError does not
\* raise: it returns the endpoint the original method produced.
C7_AttributeErrorSwallowed ==
    [][ (ret'.op = "get_endpoints" /\ ret'.origin = "try"
         /\ ret'.exc = "AttributeError")
        => (ret'.outcome = "returned" /\ ret'.endpoint = ret'.uri) ]_vars

C7_Witness ==
    /\ ret.op = "get_endpoints"
    /\ ret.origin = "try"
    /\ ret.exc = "AttributeError"
    /\ ret.outcome = "returned"
    /\ ret.endpoint = ret.uri
    /\ ret.warned

\* The context has no token attribute, or a falsy one.
NoBearer(c) == ~c.has_token \/ c.token \in {None, ""}

\* C8: a read of vos_client that finds no bearer token in the context
\* leaves self._token None and builds a client whose get_endpoints is the
\* original method; resolutions through such a client change no header.
C8_NoTokenNoInterception ==
    [][ /\ (ret'.op = "vos_client" /\ _vos_client = NoClient /\ NoBearer(ctx))
             => /\ _token' = None
                /\ _vos_client' # NoClient
                     => clients'[_vos_client'].get_endpoints = <<>>
        /\ (ret'.op = "get_endpoints" /\ clients[_vos_client].get_endpoints = <<>>)
             => UNCHANGED <<session_headers, headers>> ]_vars

C8_Witness ==
    /\ CleanResolution
    /\ NoBearer(ctx)
    /\ _token = None
    /\ clients[_vos_client].get_endpoints = <<>>
    /\ Has(headers[ret.uri], HEADER_DELEG_TOKEN)
    /\ Has(session_headers[ret.uri], HEADER_DELEG_TOKEN)
    /\ ~Has(headers[ret.uri], AUTHORIZATION)

\* C9: an exception raised by the original get_endpoints, or an exception
\* other than AttributeError raised in the try block, is raised to the
\* caller; in the first case no header of any endpoint changes.
C9_OtherFailuresPropagate ==
    [][ ( /\ ret'.op = "get_endpoints"
          /\ ret'.exc # None
          /\ (ret'.origin = "original" \/ ret'.exc # "AttributeError") )
        => /\ ret'.outcome = "raised"
           /\ ret'.endpoint = None
           /\ ret'.origin = "original" => UNCHANGED <<session_headers, headers>> ]_vars

C9_Witness ==
    /\ ret.op = "get_endpoints"
    /\ Patched
    /\ ret.outcome = "raised"
    /\ ret.exc = "OtherError"
    /\ ret.origin = "try"

\* C10: a read of vos_client that builds the client writes the default
\* host to VOSPACE_WEBSERVICE exactly when neither variable holds a
\* non-empty value, and otherwise leaves the environment alone; a read that
\* finds the client built never changes the environment.
C10_DefaultHostOnlyWhenUnconfigured ==
    [][ ret'.op = "vos_client"
        => IF _vos_client # NoClient
           THEN environ' = environ
           ELSE IF environ[VOSPACE_WEBSERVICE] \in {Absent, ""}
                   /\ environ[LOCAL_VOSPACE_WEBSERVICE] \in {Absent, ""}
           THEN environ' = [environ EXCEPT ![VOSPACE_WEBSERVICE] = DEFAULT_VOSPACE_HOST]
           ELSE environ' = environ ]_vars

C10_Witness ==
    /\ ret.op = "vos_client"
    /\ environ[VOSPACE_WEBSERVICE] = DEFAULT_VOSPACE_HOST
    /\ environ[LOCAL_VOSPACE_WEBSERVICE] \in {Absent, ""}

====
